---- MODULE Spec2Model ----
(***************************************************************************)
(* Movie catalog service: models.py (data-access layer over SQLite) and    *)
(* app.py (FastAPI routes).  The store is the SQLite file test.db; the     *)
(* process imports app.py, which imports models.py, which runs init_db()   *)
(* at import time, and then serves the four routes.                        *)
(*                                                                         *)
(* Values.  A Python float is an integer number of halves (9 is 4.5), a    *)
(* JSON string of a review body is a sequence of characters, a JSON value  *)
(* is a record [k |-> kind, n |-> number, s |-> characters] as json.loads  *)
(* yields it; kind "absent" marks a key the body does not have.            *)
(***************************************************************************)
EXTENDS Integers, Sequences, FiniteSets, TLC

VARIABLES pc, db, req, resp, call, last, openConns, runs

vars == <<pc, db, req, resp, call, last, openConns, runs>>

(* ------------------------------ bounds -------------------------------- *)
MaxMovies == 3
MaxCatalog == 6
MaxReviews == 2
MaxPage == 3
MaxLimit == 2
MaxOpenConns == 1
MaxRuns == 2

(* ------------------------------ helpers ------------------------------- *)
Min(a, b) == IF a < b THEN a ELSE b

Max(a, b) == IF a > b THEN a ELSE b

Range(s) == {s[i] : i \in DOMAIN s}

(* ---------------------------- JSON values ----------------------------- *)
JInt(i) == [k |-> "int", n |-> i, s |-> <<>>]

JFloat(h) == [k |-> "float", n |-> h, s |-> <<>>]

JStr(str) == [k |-> "str", n |-> 0, s |-> str]

JNull == [k |-> "null", n |-> 0, s |-> <<>>]

JAbsent == [k |-> "absent", n |-> 0, s |-> <<>>]

DigitVal ==
  [c \in {"0", "1", "2", "3", "4", "5", "6", "7", "8", "9"} |->
     CASE c = "0" -> 0 [] c = "1" -> 1 [] c = "2" -> 2 [] c = "3" -> 3
       [] c = "4" -> 4 [] c = "5" -> 5 [] c = "6" -> 6 [] c = "7" -> 7
       [] c = "8" -> 8 [] c = "9" -> 9]

IsDigits(s) == Len(s) > 0 /\ \A i \in 1..Len(s) : s[i] \in DOMAIN DigitVal

RECURSIVE ParseDigits(_)
ParseDigits(s) ==
  IF s = <<>> THEN 0
  ELSE 10 * ParseDigits(SubSeq(s, 1, Len(s) - 1)) + DigitVal[s[Len(s)]]

(* ------------- request validation of the Review body ------------------ *)
(* pydantic in the lax mode FastAPI uses: a field converts to its declared *)
(* type when it can be; the result is <<TRUE, value>> or <<FALSE, 0>>.     *)
Fields == {"movie_id", "rating", "comment"}

ValidateInt_AcceptNull(j) ==
  CASE j.k = "int" -> <<TRUE, j.n>>
    [] j.k = "str" /\ IsDigits(j.s) -> <<TRUE, ParseDigits(j.s)>>
    [] j.k = "null" -> <<TRUE, 0>>
    [] OTHER -> <<FALSE, 0>>

ValidateInt(j) ==
  CASE j.k = "int" -> <<TRUE, j.n>>
    [] j.k = "str" /\ IsDigits(j.s) -> <<TRUE, ParseDigits(j.s)>>
    [] OTHER -> <<FALSE, 0>>

ValidateFloat(j) ==
  CASE j.k = "float" -> <<TRUE, j.n>>
    [] j.k = "int" -> <<TRUE, 2 * j.n>>
    [] j.k = "str" /\ IsDigits(j.s) -> <<TRUE, 2 * ParseDigits(j.s)>>
    [] OTHER -> <<FALSE, 0>>

ValidateStr(j) ==
  CASE j.k = "str" -> <<TRUE, j.s>>
    [] OTHER -> <<FALSE, <<>> >>

Review(body) ==
  IF \E f \in Fields : body[f].k = "absent" THEN [ok |-> FALSE]
  ELSE LET m == ValidateInt(body["movie_id"])
           r == ValidateFloat(body["rating"])
           c == ValidateStr(body["comment"])
       IN  IF m[1] /\ r[1] /\ c[1]
           THEN [ok |-> TRUE,
                 value |-> [movie_id |-> m[2], rating |-> r[2], comment |-> c[2]]]
           ELSE [ok |-> FALSE]

ReviewJson(review) ==
  [movie_id |-> JInt(review.movie_id),
   rating |-> JFloat(review.rating),
   comment |-> JStr(review.comment)]

Movie(row) == [id |-> row.id, title |-> row.title, genre |-> row.genre]

(* --------------------------- the SQLite store ------------------------- *)
(* db.tables: the tables of test.db; db.movies, db.reviews: their          *)
(* committed rows in rowid order, which is the order a scan returns.       *)
Tables == {"movies", "reviews"}

FreshStore == [tables |-> {}, movies |-> <<>>, reviews |-> <<>>]

Titles == <<"Alien", "Brazil", "Casablanca", "Dune", "Eraserhead", "Fargo",
            "Gattaca", "Heat">>

Genres == <<"scifi", "drama">>

PoolMovie(i) == [id |-> 2 * i, title |-> Titles[i], genre |-> Genres[(i % 2) + 1]]

Catalog(n) == [i \in 1..n |-> PoolMovie(i)]

Ids(rows) == {rows[i].id : i \in DOMAIN rows}

NextRowid(rows) ==
  IF rows = <<>> THEN 1
  ELSE 1 + (CHOOSE m \in Ids(rows) : \A x \in Ids(rows) : x <= m)

get_db_connection_EnforceFk == [row_factory |-> "Row", foreign_keys |-> TRUE]

get_db_connection == [row_factory |-> "Row", foreign_keys |-> FALSE]

CreateTableIfNotExists_Recreate(d, name) ==
  [tables |-> d.tables \cup {name},
   movies |-> IF name = "movies" THEN <<>> ELSE d.movies,
   reviews |-> IF name = "reviews" THEN <<>> ELSE d.reviews]

CreateTableIfNotExists(d, name) ==
  IF name \in d.tables THEN d
  ELSE [tables |-> d.tables \cup {name},
        movies |-> IF name = "movies" THEN <<>> ELSE d.movies,
        reviews |-> IF name = "reviews" THEN <<>> ELSE d.reviews]

init_db_OnlyMovies(d) == CreateTableIfNotExists(d, "movies")

init_db(d) ==
  CreateTableIfNotExists(CreateTableIfNotExists(d, "movies"), "reviews")

(* SELECT ... LIMIT limit OFFSET offset: a negative LIMIT is no limit, a   *)
(* negative OFFSET is zero.                                                *)
SqlLimitOffset(rows, limit, offset) ==
  LET off == IF offset < 0 THEN 0 ELSE offset
      avail == Max(Len(rows) - off, 0)
      n == IF limit < 0 THEN avail ELSE Min(limit, avail)
  IN  [i \in 1..n |-> rows[off + i]]

get_movies(d, page, limit) ==
  LET offset == (page - 1) * limit
  IN  IF "movies" \notin d.tables THEN [raised |-> TRUE, value |-> <<>>]
      ELSE [raised |-> FALSE,
            value |-> LET rs == SqlLimitOffset(d.movies, limit, offset)
                      IN  [i \in 1..Len(rs) |-> Movie(rs[i])]]

get_movie_FirstRow(d, id) ==
  IF "movies" \notin d.tables THEN [raised |-> TRUE, found |-> FALSE]
  ELSE IF d.movies = <<>> THEN [raised |-> FALSE, found |-> FALSE]
  ELSE [raised |-> FALSE, found |-> TRUE, value |-> Movie(d.movies[1])]

get_movie(d, id) ==
  IF "movies" \notin d.tables THEN [raised |-> TRUE, found |-> FALSE]
  ELSE LET hits == {i \in DOMAIN d.movies : d.movies[i].id = id}
       IN  IF hits = {} THEN [raised |-> FALSE, found |-> FALSE]
           ELSE [raised |-> FALSE, found |-> TRUE,
                 value |-> Movie(d.movies[CHOOSE i \in hits : \A j \in hits : i <= j])]

Commit_Lost(committed, pending) == committed

Commit(committed, pending) == pending

InsertReview(d, review) ==
  [d EXCEPT !.reviews = Append(@, [id |-> NextRowid(@),
                                   movie_id |-> review.movie_id,
                                   rating |-> review.rating,
                                   comment |-> review.comment])]

create_review_WrongTable(d, review) ==
  [db |-> [d EXCEPT !.movies = Append(@, [id |-> NextRowid(@),
                                          title |-> "", genre |-> ""])],
   raised |-> FALSE, value |-> review]

create_review(d, review) ==
  LET conn == get_db_connection
  IN  IF "reviews" \notin d.tables
        \/ (conn.foreign_keys /\ review.movie_id \notin Ids(d.movies))
      THEN [db |-> d, raised |-> TRUE, value |-> review]
      ELSE [db |-> Commit(d, InsertReview(d, review)),
            raised |-> FALSE, value |-> review]

RECURSIVE Perms(_)
Perms(S) ==
  IF S = {} THEN {<<>>}
  ELSE UNION {{<<x>> \o p : p \in Perms(S \ {x})} : x \in S}

RecLimit_Six == 5 + 1

RecLimit == 5

(* SELECT ... ORDER BY RANDOM() LIMIT 5: order is the rank RANDOM() gives  *)
(* the rows, a permutation of their positions.                             *)
get_recommendations(d, order) ==
  IF "movies" \notin d.tables THEN [raised |-> TRUE, value |-> <<>>]
  ELSE LET sorted == [i \in 1..Len(d.movies) |-> d.movies[order[i]]]
           rs == SqlLimitOffset(sorted, RecLimit, 0)
       IN  [raised |-> FALSE, value |-> [i \in 1..Len(rs) |-> Movie(rs[i])]]

(* ------------------------------ requests ------------------------------ *)
Pages == (0 - 1)..MaxPage

Limits == (0 - 1)..MaxLimit

IdInputs == (0 - 1)..(2 * MaxMovies + 1)

BaseBody ==
  [movie_id |-> JInt(2), rating |-> JFloat(9), comment |-> JStr(<<"o", "k">>)]

MovieIdInputs == {JInt(3), JStr(<<"2">>), JStr(<<"x">>), JNull, JAbsent}

RatingInputs == {JInt(4), JStr(<<"4">>), JStr(<<"x">>), JNull, JAbsent}

CommentInputs == {JNull, JAbsent}

Bodies ==
  {BaseBody}
    \cup {[BaseBody EXCEPT !.movie_id = j] : j \in MovieIdInputs}
    \cup {[BaseBody EXCEPT !.rating = j] : j \in RatingInputs}
    \cup {[BaseBody EXCEPT !.comment = j] : j \in CommentInputs}

NoBody == [movie_id |-> JAbsent, rating |-> JAbsent, comment |-> JAbsent]

NoRequest == [op |-> "none", page |-> 0, limit |-> 0, id |-> 0, body |-> NoBody]

NoResponse == [status |-> 0, body |-> <<>>]

Request(op, page, limit, id, body) ==
  [op |-> op, page |-> page, limit |-> limit, id |-> id, body |-> body]

Handlers == {"read_movies", "read_movie", "add_review", "recommendations"}

(* ---------------------------- connections ----------------------------- *)
(* "with get_db_connection() as conn" commits or rolls back on exit and    *)
(* does not close; the connection closes when the interpreter finalises    *)
(* the object, at the return (released) or at some later time.             *)
Release(released) ==
  /\ released \/ openConns < MaxOpenConns
  /\ openConns' = IF released THEN openConns ELSE openConns + 1

Finalize ==
  /\ openConns > 0
  /\ openConns' = openConns - 1
  /\ last' = "Finalize"
  /\ UNCHANGED <<pc, db, req, resp, call, runs>>

(* ------------------------------ process ------------------------------- *)
Init ==
  /\ pc = "stopped"
  /\ db \in {FreshStore}
       \cup {[tables |-> Tables, movies |-> Catalog(n), reviews |-> <<>>] :
               n \in 0..MaxMovies}
  /\ req = NoRequest
  /\ resp = NoResponse
  /\ call = "none"
  /\ last = "none"
  /\ openConns = 0
  /\ runs = 0

StartProcess ==
  /\ pc = "stopped"
  /\ runs < MaxRuns
  /\ pc' = "importing"
  /\ runs' = runs + 1
  /\ last' = "StartProcess"
  /\ UNCHANGED <<db, req, resp, call, openConns>>

ImportModels ==
  /\ pc = "importing"
  /\ db' = init_db(db)
  /\ call' = "init_db"
  /\ pc' = "serving"
  /\ last' = "ImportModels"
  /\ \E released \in BOOLEAN : Release(released)
  /\ UNCHANGED <<req, resp, runs>>

StopProcess ==
  /\ pc = "serving"
  /\ pc' = "stopped"
  /\ req' = NoRequest
  /\ resp' = NoResponse
  /\ call' = "none"
  /\ openConns' = 0
  /\ last' = "StopProcess"
  /\ UNCHANGED <<db, runs>>

(* ------------------------------ handlers ------------------------------ *)
read_movies ==
  /\ pc = "serving"
  /\ \E page \in Pages, limit \in Limits :
       LET r == get_movies(db, page, limit)
       IN  /\ req' = Request("read_movies", page, limit, 0, NoBody)
           /\ resp' = IF r.raised THEN [status |-> 500, body |-> <<>>]
                      ELSE [status |-> 200, body |-> r.value]
  /\ call' = "get_movies"
  /\ last' = "read_movies"
  /\ \E released \in BOOLEAN : Release(released)
  /\ UNCHANGED <<pc, db, runs>>

read_movie ==
  /\ pc = "serving"
  /\ \E id \in IdInputs :
       LET movie == get_movie(db, id)
       IN  /\ req' = Request("read_movie", 0, 0, id, NoBody)
           /\ resp' = IF movie.raised THEN [status |-> 500, body |-> <<>>]
                      ELSE IF ~movie.found THEN [status |-> 404, body |-> <<>>]
                      ELSE [status |-> 200, body |-> movie.value]
  /\ call' = "get_movie"
  /\ last' = "read_movie"
  /\ \E released \in BOOLEAN : Release(released)
  /\ UNCHANGED <<pc, db, runs>>

add_review ==
  /\ pc = "serving"
  /\ \E body \in Bodies :
       LET review == Review(body)
       IN  /\ req' = Request("add_review", 0, 0, 0, body)
           /\ IF ~review.ok
              THEN /\ resp' = [status |-> 422, body |-> <<>>]
                   /\ call' = "none"
                   /\ UNCHANGED <<db, openConns>>
              ELSE LET r == create_review(db, review.value)
                   IN  /\ Len(db.reviews) < MaxReviews
                       /\ db' = r.db
                       /\ resp' = IF r.raised THEN [status |-> 500, body |-> <<>>]
                                  ELSE [status |-> 200, body |-> ReviewJson(r.value)]
                       /\ call' = "create_review"
                       /\ \E released \in BOOLEAN : Release(released)
  /\ last' = "add_review"
  /\ UNCHANGED <<pc, runs>>

recommendations ==
  /\ pc = "serving"
  /\ \E order \in Perms(1..Len(db.movies)) :
       LET r == get_recommendations(db, order)
       IN  resp' = IF r.raised THEN [status |-> 500, body |-> <<>>]
                   ELSE [status |-> 200, body |-> r.value]
  /\ req' = Request("recommendations", 0, 0, 0, NoBody)
  /\ call' = "get_recommendations"
  /\ last' = "recommendations"
  /\ \E released \in BOOLEAN : Release(released)
  /\ UNCHANGED <<pc, db, runs>>

Next ==
  \/ StartProcess
  \/ ImportModels
  \/ StopProcess
  \/ read_movies
  \/ read_movie
  \/ add_review
  \/ recommendations
  \/ Finalize

Spec == Init /\ [][Next]_vars

(* The recommendations query applied once to each catalog of a set that   *)
(* has catalogs large enough for its LIMIT to cut, in a process that is   *)
(* already serving.  The query reads db.movies only, which no step        *)
(* changes, so a second call has the outcomes of the first.               *)
InitRec ==
  /\ pc = "serving"
  /\ db \in {[tables |-> Tables, movies |-> Catalog(n), reviews |-> <<>>] :
               n \in 0..MaxCatalog}
  /\ req = NoRequest
  /\ resp = NoResponse
  /\ call = "init_db"
  /\ last = "ImportModels"
  /\ openConns = 0
  /\ runs = 1

RecommendOnce == req = NoRequest /\ recommendations

NextRec == RecommendOnce \/ Finalize

SpecRec == InitRec /\ [][NextRec]_vars

(* ====================== properties of the service ===================== *)
NumHalves(j) == IF j.k = "int" THEN 2 * j.n ELSE j.n

IsNumber(j) == j.k \in {"int", "float"}

MissingField(body) == \E f \in Fields : body[f].k = "absent"

WellTyped(body) ==
  /\ body.movie_id.k = "int"
  /\ IsNumber(body.rating)
  /\ body.comment.k = "str"

WrongType(body) ==
  \/ body.movie_id.k \notin {"int", "absent"}
  \/ body.rating.k \notin {"int", "float", "absent"}
  \/ body.comment.k \notin {"str", "absent"}

NotANumber(j) == j.k = "null" \/ (j.k = "str" /\ ~IsDigits(j.s))

Unconvertible(body) ==
  \/ NotANumber(body.movie_id)
  \/ NotANumber(body.rating)
  \/ body.comment.k = "null"

Echoes(out, body) ==
  /\ DOMAIN out = Fields
  /\ out.movie_id.k = "int" /\ out.movie_id.n = body.movie_id.n
  /\ IsNumber(out.rating) /\ NumHalves(out.rating) = NumHalves(body.rating)
  /\ out.comment = body.comment

Persisted(before, after, body) ==
  /\ Len(after.reviews) = Len(before.reviews) + 1
  /\ SubSeq(after.reviews, 1, Len(before.reviews)) = before.reviews
  /\ LET row == after.reviews[Len(after.reviews)]
     IN  /\ row.movie_id = body.movie_id.n
         /\ row.rating = NumHalves(body.rating)
         /\ row.comment = body.comment.s
  /\ after.movies = before.movies
  /\ after.tables = before.tables

CatalogSlice(rows, offset, limit) ==
  LET lo == Max(offset + 1, 1)
      hi == Min(offset + limit, Len(rows))
      n == Max(hi - lo + 1, 0)
  IN  [i \in 1..n |-> rows[lo + i - 1]]

(* C1: GET /movies returns at most limit movies, and they are the slice of *)
(* the catalog, in store order, from offset (page-1)*limit of length up to *)
(* limit, for every integer page and limit.                                *)
C1_PageIsCatalogSlice ==
  last = "read_movies" =>
    /\ resp.status = 200
    /\ Len(resp.body) <= req.limit
    /\ resp.body = CatalogSlice(db.movies, (req.page - 1) * req.limit, req.limit)

(* C2: GET /movies/{id} returns exactly the stored row with that id when   *)
(* one exists, and 404 when and only when none exists.                     *)
C2_ReadMovieFindsRow ==
  [][last' = "read_movie" =>
       IF \E row \in Range(db.movies) : row.id = req'.id
       THEN /\ resp'.status = 200
            /\ resp'.body \in Range(db.movies)
            /\ resp'.body.id = req'.id
       ELSE resp'.status = 404]_vars

C2_Witness ==
  /\ last = "read_movie"
  /\ resp.status = 200
  /\ resp.body.id = req.id
  /\ Len(db.movies) > 1

(* C3: POST /reviews with a well-typed body answers 200 with the submitted *)
(* fields and nothing else, and the reviews table has exactly one more     *)
(* committed row carrying those values.                                    *)
C3_AddReviewEchoesAndPersists ==
  [][(last' = "add_review" /\ WellTyped(req'.body)) =>
       /\ resp'.status = 200
       /\ Echoes(resp'.body, req'.body)
       /\ Persisted(db, db', req'.body)]_vars

C3_Witness ==
  /\ last = "add_review"
  /\ WellTyped(req.body)
  /\ resp.status = 200
  /\ Len(db.reviews) = 2

C5_RecommendationsSample ==
  last = "recommendations" =>
    /\ resp.status = 200
    /\ Len(resp.body) <= 5
    /\ \A i \in 1..Len(resp.body) : resp.body[i] \in Range(db.movies)
    /\ \A i, j \in 1..Len(resp.body) : i # j => resp.body[i] # resp.body[j]

C5_Witness ==
  /\ last = "recommendations"
  /\ Len(db.movies) > 5
  /\ Len(resp.body) = 5

(* C6: no exposed operation inserts, deletes or changes a movie.           *)
C6_MoviesUntouched ==
  [][last' \in Handlers =>
       /\ db'.movies = db.movies
       /\ ("movies" \in db'.tables) = ("movies" \in db.tables)]_vars

C6_Witness ==
  /\ last = "add_review"
  /\ resp.status = 200
  /\ Len(db.reviews) = 2
  /\ Len(db.movies) > 0

(* C7: init_db run against a store that already has the schema leaves the  *)
(* schema and every row unchanged, and running it again after any run      *)
(* changes nothing.                                                        *)
C7_InitDbIdempotent ==
  [][last' = "ImportModels" =>
       /\ pc' = "serving"
       /\ init_db(db') = db'
       /\ (Tables \subseteq db.tables => db' = db)]_vars

C7_Witness ==
  /\ last = "ImportModels"
  /\ runs = 2
  /\ Len(db.movies) > 0
  /\ Len(db.reviews) > 0

(* C8: no connection opened by a finished data-access operation is still   *)
(* open.                                                                   *)
C8_ConnectionsReleased == openConns = 0

(* C9: a well-typed review whose movie_id matches no movie is accepted,    *)
(* echoed and persisted like any other.                                    *)
C9_NoReferentialCheck ==
  [][(/\ last' = "add_review"
      /\ WellTyped(req'.body)
      /\ req'.body.movie_id.n \notin Ids(db.movies)) =>
       /\ resp'.status = 200
       /\ Echoes(resp'.body, req'.body)
       /\ Persisted(db, db', req'.body)]_vars

C9_Witness ==
  /\ last = "add_review"
  /\ resp.status = 200
  /\ Len(db.movies) > 0
  /\ \E row \in Range(db.reviews) : row.movie_id \notin Ids(db.movies)
  /\ \E row \in Range(db.reviews) : row.movie_id \in Ids(db.movies)

(* C10: a request handler runs only in a process whose import of models    *)
(* has run init_db, with both tables in the store.                         *)
C10_SchemaBeforeRequests ==
  [][last' \in Handlers =>
       /\ pc = "serving"
       /\ runs >= 1
       /\ Tables \subseteq db.tables]_vars

C10_Witness ==
  /\ last \in Handlers
  /\ call # "none"
  /\ runs = 1
  /\ db.movies = <<>>
====
